---- MODULE Spec2Model ----
(***************************************************************************)
(* A model of the `mathematical` package: the floating-point range type    *)
(* FRange (mathematical/utils.py) and the outlier detectors                 *)
(* (mathematical/outliers.py).                                              *)
(*                                                                          *)
(* Numbers.  A Python float is modelled as a binary floating-point number   *)
(* with a Prec-bit significand.  A float value is held as an integer count  *)
(* of units of 2^-FracBits (so One = 2^FracBits is the float 1.0); every     *)
(* arithmetic result is rounded to Prec significant bits, ties to even, as  *)
(* IEEE-754 arithmetic does with 53 bits.  Small integers are exact, sums   *)
(* and products that need more than Prec bits are rounded.  NaN and the     *)
(* infinities are not part of the FRange value domain of this model.        *)
(***************************************************************************)
EXTENDS Integers, Sequences, FiniteSets, TLC

VARIABLES r, phase, ret, it, data, out

vars == <<r, phase, ret, it, data, out>>

----------------------------------------------------------------------------
(* Bounds of the model *)

\* significand bits of the modelled float
Prec == 3

\* the float 1.0 is 2^FracBits units
FracBits == 3

\* largest positional index tried by Item
MaxIndex == 4

----------------------------------------------------------------------------
(* Floating-point kernel *)

One == 2 ^ FracBits

Abs(x) == IF x < 0 THEN -x ELSE x

Sgn(x) == IF x < 0 THEN -1 ELSE IF x > 0 THEN 1 ELSE 0

\* num/den (num >= 0, den > 0) rounded to the nearest integer, ties to even
RoundHalfEven(num, den) ==
    LET q == num \div den
        m == num % den
    IN  IF 2 * m > den \/ (2 * m = den /\ q % 2 = 1) THEN q + 1 ELSE q

\* how many low bits of n >= 0 do not fit a Prec-bit significand
RECURSIVE ExcessBits(_)
ExcessBits(n) == IF n < 2 ^ Prec THEN 0 ELSE 1 + ExcessBits(n \div 2)

\* the float nearest to the exact value n (in any unit): the result of a
\* float addition, subtraction, int*float product, or of float(n)
Fl(n) ==
    LET e == ExcessBits(Abs(n))
    IN  Sgn(n) * RoundHalfEven(Abs(n), 2 ^ e) * (2 ^ e)

\* scale num/den (both > 0) until the quotient has a Prec-bit integer part
RECURSIVE NormQuot(_, _, _)
NormQuot(num, den, e) ==
    IF num >= (2 ^ Prec) * den THEN NormQuot(num, 2 * den, e + 1)
    ELSE IF num < (2 ^ (Prec - 1)) * den THEN NormQuot(2 * num, den, e - 1)
    ELSE <<num, den, e>>

\* the float quotient a / b (b # 0) as sign * m * 2^e
FloatDiv(a, b) ==
    IF a = 0 THEN [s |-> 0, m |-> 0, e |-> 0]
    ELSE LET n == NormQuot(Abs(a), Abs(b), 0)
         IN  [s |-> Sgn(a) * Sgn(b), m |-> RoundHalfEven(n[1], n[2]), e |-> n[3]]

\* int(q): truncation toward zero of a float quotient
IntOf(q) ==
    IF q.e >= 0 THEN q.s * q.m * (2 ^ q.e)
    ELSE q.s * (q.m \div (2 ^ (-q.e)))

\* math.ceil(q)
CeilOf(q) ==
    IF q.e >= 0 THEN q.s * q.m * (2 ^ q.e)
    ELSE IF q.s >= 0 THEN (q.m + (2 ^ (-q.e)) - 1) \div (2 ^ (-q.e))
    ELSE -(q.m \div (2 ^ (-q.e)))

\* Python's float %: fmod, then moved to the sign of the divisor
PyMod(v, w) ==
    LET fm == Sgn(v) * (Abs(v) % Abs(w))
    IN  IF fm # 0 /\ ((w < 0) # (fm < 0)) THEN Fl(fm + w) ELSE fm

----------------------------------------------------------------------------
(* Constructor arguments: None, or a number m * 10^d units (1e100 is        *)
(* [m |-> One, d |-> 100]).                                                  *)

None == [none |-> TRUE]

Num(m, d) == [m |-> m, d |-> d]

\* float(x) of a numeric argument
ToFloat(x) == Num(Fl(x.m), x.d)

\* the value of a float, in units
Val(x) == x.m * (10 ^ x.d)

\* floor(log10(num/den)) and whether num/den is that power of ten exactly
RECURSIVE FloorLog10(_, _)
FloorLog10(num, den) ==
    IF num >= 10 * den
    THEN LET t == FloorLog10(num, 10 * den) IN [fl |-> t.fl + 1, exact |-> t.exact]
    ELSE IF num < den
    THEN LET t == FloorLog10(10 * num, den) IN [fl |-> t.fl - 1, exact |-> t.exact]
    ELSE [fl |-> 0, exact |-> (num = den)]

\* magnitude(x) = int(log10(|x|)), 0 for x = 0
magnitude(x) ==
    IF x.m = 0 THEN 0
    ELSE LET t == FloorLog10(Abs(x.m), One)
             L == t.fl + x.d
         IN  IF L >= 0 \/ t.exact THEN L ELSE L + 1

MaxMagnitude == 14

----------------------------------------------------------------------------
(* FRange: the object and its methods.  An object is a function from        *)
(* attribute names to values; start, stop and step hold floats.             *)

\* a new instance sees only the class attribute _init = False
NewObject == [k \in {"_init"} |-> FALSE]

\* a __setattr__ that forgets the lock
SetAttrUnlocked(o, key, value) ==
    [err |-> "ok",
     obj |-> [k \in (DOMAIN o) \cup {key} |-> IF k = key THEN value ELSE o[k]]]

\* FRange.__setattr__
SetAttr(o, key, value) ==
    IF o["_init"] THEN [err |-> "AttributeError", obj |-> o]
    ELSE [err |-> "ok",
          obj |-> [k \in (DOMAIN o) \cup {key} |-> IF k = key THEN value ELSE o[k]]]

\* FRange.__delattr__
DelAttr(o, key) ==
    IF o["_init"] THEN [err |-> "AttributeError", obj |-> o]
    ELSE [err |-> "ok", obj |-> [k \in (DOMAIN o) \ {key} |-> o[k]]]

\* start/stop assignments that store a single argument as start
InitBoundsSwapped(start, stop) ==
    IF start # None /\ stop = None
    THEN SetAttr(SetAttr(NewObject, "start", ToFloat(start)).obj, "stop", Num(0, 0))
    ELSE IF start # None /\ stop # None
    THEN SetAttr(SetAttr(NewObject, "start", ToFloat(start)).obj, "stop", ToFloat(stop))
    ELSE [err |-> "TypeError", obj |-> NewObject]

\* the start/stop assignments of __init__: None when the arguments are invalid
InitBounds(start, stop) ==
    IF start # None /\ stop = None
    THEN SetAttr(SetAttr(NewObject, "stop", ToFloat(start)).obj, "start", Num(0, 0))
    ELSE IF start # None /\ stop # None
    THEN SetAttr(SetAttr(NewObject, "start", ToFloat(start)).obj, "stop", ToFloat(stop))
    ELSE [err |-> "TypeError", obj |-> NewObject]

\* the magnitude checks of __init__ and the final lock
InitCheck(o) ==
    IF magnitude(o["start"]) > MaxMagnitude THEN [err |-> "ValueError: start too large", obj |-> o]
    ELSE IF magnitude(o["stop"]) > MaxMagnitude THEN [err |-> "ValueError: stop too large", obj |-> o]
    ELSE IF magnitude(o["step"]) > MaxMagnitude THEN [err |-> "ValueError: step too large", obj |-> o]
    ELSE SetAttr(o, "_init", TRUE)

\* FRange.__init__(start, stop, step)
FRangeInit(start, stop, step) ==
    LET b == InitBounds(start, stop)
    IN  IF b.err # "ok" THEN b
        ELSE IF step.m = 0 THEN [err |-> "ValueError: step is zero", obj |-> b.obj]
        ELSE InitCheck(SetAttr(b.obj, "step", ToFloat(step)).obj)

Start(o) == Val(o["start"])
Stop(o) == Val(o["stop"])
Step(o) == Val(o["step"])

IsNumber(v) == "m" \in DOMAIN v

\* FRange.__len__
Len_(o) ==
    IF Stop(o) <= Start(o) /\ Step(o) > 0 THEN 0
    ELSE IF Stop(o) >= Start(o) /\ Step(o) < 0 THEN 0
    ELSE CeilOf(FloatDiv(Fl(Stop(o) - Start(o)), Step(o)))

\* FRange.__contains__
Contains(o, v) ==
    IF IsNumber(v)
    THEN IF Step(o) > 0
         THEN (Start(o) <= Val(v) /\ Val(v) < Stop(o))
              /\ PyMod(Fl(Val(v) - Start(o)), Step(o)) = 0
         ELSE IF Step(o) < 0
         THEN (Start(o) >= Val(v) /\ Val(v) > Stop(o))
              /\ PyMod(Fl(Val(v) - Start(o)), Step(o)) = 0
         ELSE FALSE
    ELSE FALSE

\* FRange.count
Count(o, v) == IF Contains(o, v) THEN 1 ELSE 0

\* FRange.index
Index(o, v) ==
    IF ~Contains(o, v) THEN [err |-> "ValueError: not in range", val |-> 0]
    ELSE [err |-> "ok", val |-> IntOf(FloatDiv(Fl(Val(v) - Start(o)), Step(o)))]

\* the value __iter__ computes for a count
IterValue(o, count) == Fl(Start(o) + Fl(Fl(count) * Step(o)))

\* break conditions that let a value equal to stop through
IterBreaksStrict(o, value) ==
    \/ Step(o) > 0 /\ value > Stop(o)
    \/ Step(o) < 0 /\ value < Stop(o)

\* the break conditions of __iter__
IterBreaks(o, value) ==
    \/ Step(o) > 0 /\ value >= Stop(o)
    \/ Step(o) < 0 /\ value <= Stop(o)

\* tuple(self) / list(self): __iter__ run to its end
RECURSIVE IterFrom(_, _)
IterFrom(o, count) ==
    LET value == IterValue(o, count)
    IN  IF IterBreaks(o, value) THEN <<>>
        ELSE <<value>> \o IterFrom(o, count + 1)

IterList(o) == IterFrom(o, 0)

\* FRange.__getitem__ with an integer item
GetItem(o, item) ==
    IF item >= 0
    THEN LET value == Fl(Start(o) + Fl(Fl(item) * Step(o)))
         IN  IF value >= Stop(o) THEN [err |-> "IndexError", val |-> 0]
             ELSE [err |-> "ok", val |-> value]
    ELSE LET value == Fl(Stop(o) - Fl(Fl(item) * Step(o)))
         IN  IF value < Start(o) THEN [err |-> "IndexError", val |-> 0]
             ELSE [err |-> "ok", val |-> value]

\* FRange.__repr__: the fields shown
Repr(o) ==
    IF Step(o) # One THEN <<Start(o), Stop(o), Step(o)>>
    ELSE <<Start(o), Stop(o)>>

\* the FRange that __reversed__ builds
ReversedRange(o) ==
    IF Start(o) = Stop(o)
    THEN FRangeInit(Num(Start(o), 0), Num(Stop(o), 0), Num(-Step(o), 0))
    ELSE LET m == PyMod(Fl(Stop(o) - Start(o)), Step(o))
             remainder == IF m # 0 THEN m ELSE Step(o)
         IN  FRangeInit(Num(Fl(Stop(o) - remainder), 0),
                        Num(Fl(Start(o) - Step(o)), 0),
                        Num(-Step(o), 0))

\* list(reversed(self))
Reversed(o) ==
    LET c == ReversedRange(o)
    IN  IF c.err # "ok" THEN [err |-> c.err, val |-> <<>>]
        ELSE [err |-> "ok", val |-> IterList(c.obj)]

\* a native range(start, stop, step) of integers, as float-comparable values
RECURSIVE RangeFrom(_, _, _)
RangeFrom(i, stop, step) ==
    IF (step > 0 /\ i >= stop) \/ (step < 0 /\ i <= stop) THEN <<>>
    ELSE <<i * One>> \o RangeFrom(i + step, stop, step)

\* tuple(other) for the other operand of ==
OtherTuple(other) ==
    IF other.kind = "FRange" THEN IterList(other.obj)
    ELSE RangeFrom(other.start, other.stop, other.step)

\* an == that compares the triples instead of the values
EqByFields(o, other) ==
    IF other.kind = "FRange"
    THEN /\ o["start"] = other.obj["start"]
         /\ o["stop"] = other.obj["stop"]
         /\ o["step"] = other.obj["step"]
    ELSE IF other.kind = "range"
    THEN /\ Start(o) = other.start * One
         /\ Stop(o) = other.stop * One
         /\ Step(o) = other.step * One
    ELSE FALSE

\* FRange.__eq__
Eq(o, other) ==
    IF other.kind \in {"FRange", "range"} THEN IterList(o) = OtherTuple(other)
    ELSE FALSE

HashModulus == 251

\* hash of a tuple of floats: a deterministic fold over the elements
RECURSIVE HashTuple(_)
HashTuple(t) ==
    IF t = <<>> THEN 7
    ELSE (31 * HashTuple(Tail(t)) + (Head(t) % HashModulus)) % HashModulus

\* FRange.__hash__
Hash(o) == HashTuple(IterList(o))

----------------------------------------------------------------------------
(* Inputs *)

\* start/stop values tried, in units
ArgVals == {-One, 0, 3, One, 2 * One}

\* step values tried, in units
StepVals == {-One, -3, 3, 5, One}

\* numbers whose order of magnitude exceeds the limit
HugeArgs == {Num(One, MaxMagnitude + 1), Num(-One, 100)}

StartArgs == {Num(v, 0) : v \in ArgVals} \cup HugeArgs \cup {None}

StepArgs == {Num(v, 0) : v \in StepVals \cup {0}} \cup {Num(One, MaxMagnitude + 1)}

\* a non-numeric probe value
Spam == [str |-> "spam"]

SeqRange(t) == {t[i] : i \in 1..Len(t)}

\* the values asked of Contains, Count and Index
Probes(o) ==
    IF o["_init"]
    THEN {Num(v, 0) : v \in {0, 5, 6, One} \cup SeqRange(IterList(o))} \cup {Spam}
    ELSE {}

\* the other operands of ==
OtherFRanges ==
    {[kind |-> "FRange", obj |-> FRangeInit(Num(a, 0), Num(b, 0), Num(c, 0)).obj] :
        a \in {0, 3}, b \in {0, 5, One, 2 * One}, c \in {3, One}}

OtherRanges ==
    {[kind |-> "range", start |-> a, stop |-> b, step |-> c] :
        a \in {0, 1}, b \in {0, 2}, c \in {1}}

Others(o) ==
    IF o["_init"]
    THEN OtherFRanges \cup OtherRanges
            \cup {[kind |-> k, elems |-> IterList(o)] : k \in {"tuple", "list"}}
    ELSE {}

----------------------------------------------------------------------------
(* The state machine.  r is the FRange object, phase its lifecycle, ret the  *)
(* call just made and its outcome (NoCall once the caller has taken it),   *)
(* it the generator made by iter(r).                                        *)

NoIter == [state |-> "none", count |-> 0, yielded |-> <<>>]

NoCall == [op |-> "none"]

NoOut == [op |-> "none"]

Init ==
    /\ r = NewObject
    /\ phase = "new"
    /\ ret = NoCall
    /\ it = NoIter
    /\ data = <<>>
    /\ out = NoOut

\* FRange(start, stop, step); an omitted step is 1.0
Construct(start, stop, step) ==
    /\ phase = "new"
    /\ LET c == FRangeInit(start, stop, step)
       IN  /\ r' = IF c.err = "ok" THEN c.obj ELSE r
           /\ phase' = IF c.err = "ok" THEN "locked" ELSE "failed"
           /\ ret' = [op |-> "init", arg |-> <<start, stop, step>>, err |-> c.err]
    /\ UNCHANGED <<it, data, out>>

\* r.key = value
SetAttrOp(key, value) ==
    /\ phase = "locked"
    /\ ret = NoCall
    /\ LET s == SetAttr(r, key, value)
       IN  /\ r' = s.obj
           /\ ret' = [op |-> "setattr", arg |-> key, err |-> s.err]
    /\ UNCHANGED <<phase, it, data, out>>

\* del r.key
DelAttrOp(key) ==
    /\ phase = "locked"
    /\ ret = NoCall
    /\ LET s == DelAttr(r, key)
       IN  /\ r' = s.obj
           /\ ret' = [op |-> "delattr", arg |-> key, err |-> s.err]
    /\ UNCHANGED <<phase, it, data, out>>

\* len(r)
LenOp ==
    /\ phase = "locked"
    /\ ret = NoCall
    /\ ret' = [op |-> "len", err |-> "ok", val |-> Len_(r)]
    /\ UNCHANGED <<r, phase, it, data, out>>

\* v in r
ContainsOp(v) ==
    /\ phase = "locked"
    /\ ret = NoCall
    /\ ret' = [op |-> "contains", arg |-> v, err |-> "ok", val |-> Contains(r, v)]
    /\ UNCHANGED <<r, phase, it, data, out>>

\* r.count(v)
CountOp(v) ==
    /\ phase = "locked"
    /\ ret = NoCall
    /\ ret' = [op |-> "count", arg |-> v, err |-> "ok", val |-> Count(r, v)]
    /\ UNCHANGED <<r, phase, it, data, out>>

\* r.index(v)
IndexOp(v) ==
    /\ phase = "locked"
    /\ ret = NoCall
    /\ LET x == Index(r, v)
       IN  ret' = [op |-> "index", arg |-> v, err |-> x.err, val |-> x.val]
    /\ UNCHANGED <<r, phase, it, data, out>>

\* r[i]
GetItemOp(i) ==
    /\ phase = "locked"
    /\ ret = NoCall
    /\ LET x == GetItem(r, i)
       IN  ret' = [op |-> "getitem", arg |-> i, err |-> x.err, val |-> x.val]
    /\ UNCHANGED <<r, phase, it, data, out>>

\* repr(r)
ReprOp ==
    /\ phase = "locked"
    /\ ret = NoCall
    /\ ret' = [op |-> "repr", err |-> "ok", val |-> Repr(r)]
    /\ UNCHANGED <<r, phase, it, data, out>>

\* list(reversed(r))
ReversedOp ==
    /\ phase = "locked"
    /\ ret = NoCall
    /\ LET x == Reversed(r)
       IN  ret' = [op |-> "reversed", err |-> x.err, val |-> x.val]
    /\ UNCHANGED <<r, phase, it, data, out>>

\* r == other
EqOp(other) ==
    /\ phase = "locked"
    /\ ret = NoCall
    /\ ret' = [op |-> "eq", arg |-> other, err |-> "ok", val |-> Eq(r, other)]
    /\ UNCHANGED <<r, phase, it, data, out>>

\* hash(r)
HashOp ==
    /\ phase = "locked"
    /\ ret = NoCall
    /\ ret' = [op |-> "hash", err |-> "ok", val |-> Hash(r)]
    /\ UNCHANGED <<r, phase, it, data, out>>

\* iter(r): a new generator, positioned before the loop
IterStart ==
    /\ phase = "locked"
    /\ it.state # "active"
    /\ it' = [state |-> "active", count |-> 0, yielded |-> <<>>]
    /\ UNCHANGED <<r, phase, ret, data, out>>

\* next() on the generator: one pass of the loop of __iter__
IterNext ==
    /\ it.state = "active"
    /\ LET value == IterValue(r, it.count)
       IN  IF IterBreaks(r, value)
           THEN it' = [it EXCEPT !.state = "done"]
           ELSE it' = [it EXCEPT !.count = @ + 1, !.yielded = Append(@, value)]
    /\ UNCHANGED <<r, phase, ret, data, out>>

\* the caller takes the outcome of its call and goes on
Resume ==
    /\ ret # NoCall
    /\ phase = "locked"
    /\ ret' = NoCall
    /\ UNCHANGED <<r, phase, it, data, out>>

Next ==
    \/ \E start \in StartArgs, stop \in StartArgs, step \in StepArgs :
          Construct(start, stop, step)
    \/ \E key \in {"start", "stop", "step"} : SetAttrOp(key, Num(0, 0))
    \/ \E key \in {"start", "stop", "step"} : DelAttrOp(key)
    \/ LenOp
    \/ \E v \in Probes(r) : ContainsOp(v)
    \/ \E v \in Probes(r) : CountOp(v)
    \/ \E v \in Probes(r) : IndexOp(v)
    \/ \E i \in (-MaxIndex)..MaxIndex : GetItemOp(i)
    \/ ReprOp
    \/ ReversedOp
    \/ \E other \in Others(r) : EqOp(other)
    \/ HashOp
    \/ IterStart
    \/ IterNext
    \/ Resume

Spec == Init /\ [][Next]_vars

----------------------------------------------------------------------------
(* Several generators over one FRange: under IterSpec, it is the sequence *)
(* of the generators made so far by iter(r), each with its own count.     *)

MaxIters == 2

InitIter ==
    /\ \E start \in StartArgs, stop \in StartArgs, step \in StepArgs :
          LET c == FRangeInit(start, stop, step)
          IN  c.err = "ok" /\ r = c.obj
    /\ phase = "locked"
    /\ ret = NoCall
    /\ it = <<>>
    /\ data = <<>>
    /\ out = NoOut

\* iter(r) with a counter kept for all generators together: a new iteration
\* puts it back to 0
IterOpenShared ==
    /\ Len(it) < MaxIters
    /\ it' = Append([i \in 1..Len(it) |-> [it[i] EXCEPT !.count = 0]],
                    [state |-> "active", count |-> 0, yielded |-> <<>>])
    /\ UNCHANGED <<r, phase, ret, data, out>>

\* iter(r): one more generator, with its own count = 0
IterOpen ==
    /\ Len(it) < MaxIters
    /\ it' = Append(it, [state |-> "active", count |-> 0, yielded |-> <<>>])
    /\ UNCHANGED <<r, phase, ret, data, out>>

\* next() on the i-th generator: one pass of the loop of __iter__
IterStep(i) ==
    /\ it[i].state = "active"
    /\ LET value == IterValue(r, it[i].count)
       IN  IF IterBreaks(r, value)
           THEN it' = [it EXCEPT ![i].state = "done"]
           ELSE it' = [it EXCEPT ![i].count = @ + 1, ![i].yielded = Append(@, value)]
    /\ UNCHANGED <<r, phase, ret, data, out>>

NextIter ==
    \/ IterOpen
    \/ \E i \in 1..Len(it) : IterStep(i)

IterSpec == InitIter /\ [][NextIter]_vars

----------------------------------------------------------------------------

(* Helpers of the properties *)

Reverse(t) == [i \in 1..Len(t) |-> t[Len(t) + 1 - i]]

\* two sequences are equal element for element
SameSeq(t, u) == Len(t) = Len(u) /\ \A i \in 1..Len(t) : t[i] = u[i]

\* floor(log10(|x|)), 0 for x = 0: the order of magnitude of the specification
OrderOfMagnitude(x) ==
    IF x.m = 0 THEN 0 ELSE FloorLog10(Abs(x.m), One).fl + x.d

----------------------------------------------------------------------------
(* FRange properties *)

C2_LengthLaw ==
    ret.op = "len" => ret.val = Len(IterList(r))

\* C3: Reversed produces the values of Iterate read backwards.
C3_ReversalLaw ==
    ret.op = "reversed" => ret.err = "ok" /\ ret.val = Reverse(IterList(r))

\* C4: Contains(v) is true iff v is numeric and one of the values Iterate
\* produces, and Count(v) is 1 exactly then, else 0.
C4_ContainsAgreesWithIterate ==
    /\ ret.op = "contains" =>
          ret.val = (IsNumber(ret.arg) /\ Val(ret.arg) \in SeqRange(IterList(r)))
    /\ ret.op = "count" =>
          ret.val = IF IsNumber(ret.arg) /\ Val(ret.arg) \in SeqRange(IterList(r))
                    THEN 1 ELSE 0

C7_Immutable ==
    /\ [][phase = "locked" => (r' = r /\ phase' = "locked")]_vars
    /\ [](ret.op \in {"setattr", "delattr"} => ret.err = "AttributeError")

\* C7 witness: an assignment was refused after an iteration had run
C7_Witness ==
    /\ ret.op = "setattr" /\ ret.err = "AttributeError"
    /\ it.state = "done" /\ Len(it.yielded) >= 2

\* C8: Index(v) returns a position at which Iterate produces v, and fails
\* with the not-in-range ValueError exactly when Iterate does not produce v.
C8_IndexInvertsIterate ==
    ret.op = "index" =>
        IF IsNumber(ret.arg) /\ Val(ret.arg) \in SeqRange(IterList(r))
        THEN /\ ret.err = "ok"
             /\ ret.val \in 0..(Len(IterList(r)) - 1)
             /\ IterList(r)[ret.val + 1] = Val(ret.arg)
        ELSE ret.err = "ValueError: not in range"

\* C9: for 0 <= i < Length, Item(i) returns the i-th value of Iterate; for
\* i >= Length it fails with an IndexError.
C9_ItemNonNegative ==
    (ret.op = "getitem" /\ ret.arg >= 0) =>
        IF ret.arg < Len_(r)
        THEN /\ ret.err = "ok"
             /\ ret.val = Fl(Start(r) + Fl(Fl(ret.arg) * Step(r)))
             /\ ret.arg < Len(IterList(r)) /\ ret.val = IterList(r)[ret.arg + 1]
        ELSE ret.err = "IndexError"

----------------------------------------------------------------------------
(* Datasets and the outlier detectors (mathematical/outliers.py).  A         *)
(* dataset element is None, a string, a boolean or an integer, held as a     *)
(* record of its type t and its numeric value v.  The statistics of small    *)
(* integers are held as integer multiples of 1/2, 1/4 or 1/8, or compared    *)
(* by integer arithmetic, so no rounding takes part in them.  NaN is given   *)
(* to the statistics of stats.py only, not to the detectors.                 *)

\* the longest dataset
MaxData == 4

NoneElem == [t |-> "none", v |-> 0]

\* the empty string ''
EmptyStr == [t |-> "str", v |-> 0]

\* False
FalseElem == [t |-> "bool", v |-> 0]

IntElem(n) == [t |-> "int", v |-> n]

\* numpy.nan
NaNElem == [t |-> "nan", v |-> 0]

\* utils.strip_nonetype
strip_nonetype(ls) == SelectSeq(ls, LAMBDA x : x.t # "none")

\* utils.strip_booleans
strip_booleans(ls) == SelectSeq(ls, LAMBDA x : x.t # "bool")

\* isinstance(x, str): a string given by the caller, or the string that
\* numpy has made of a number or a boolean
IsStr(x) == x.t \in {"str", "str(int)", "str(bool)"}

\* utils.strip_strings
strip_strings(ls) == SelectSeq(ls, LAMBDA x : ~IsStr(x))

\* utils.strip_none_bool_string
strip_none_bool_string(ls) == strip_strings(strip_booleans(strip_nonetype(ls)))

\* the elements of numpy.array(inputlist): with a None among them they are
\* kept as objects; otherwise with a string among them all become strings
\* (0 becomes '0'); otherwise they are numbers, booleans too unless all are
NumpyArray(inputlist) ==
    LET has(t) == \E i \in 1..Len(inputlist) : inputlist[i].t = t
        all(t) == \A i \in 1..Len(inputlist) : inputlist[i].t = t
        conv(x) ==
            IF has("none") THEN x
            ELSE IF has("str")
            THEN (IF x.t = "str" THEN x
                  ELSE [t |-> IF x.t = "int" THEN "str(int)" ELSE "str(bool)", v |-> x.v])
            ELSE IF all("bool") \/ x.t = "nan" THEN x
            ELSE IntElem(x.v)
    IN  [i \in 1..Len(inputlist) |-> conv(inputlist[i])]

\* the elements numpy.nonzero selects: the numbers other than 0, True, the
\* strings other than '', and of objects those that are true
NonZero(x) ==
    IF x.t = "none" THEN FALSE
    ELSE IF x.t = "str" THEN x # EmptyStr
    ELSE IF x.t \in {"str(int)", "str(bool)", "nan"} THEN TRUE
    ELSE x.v # 0

\* utils.remove_zero
remove_zero(inputlist) == SelectSeq(NumpyArray(inputlist), NonZero)

\* the numbers of a dataset, as numpy.array(dataset) holds them
Values(dataset) == [i \in 1..Len(dataset) |-> dataset[i].v]

RECURSIVE Insert(_, _)
Insert(x, a) ==
    IF a = <<>> THEN <<x>>
    ELSE IF x <= Head(a) THEN <<x>> \o a
    ELSE <<Head(a)>> \o Insert(x, Tail(a))

\* the values in ascending order
RECURSIVE Sorted(_)
Sorted(a) == IF a = <<>> THEN <<>> ELSE Insert(Head(a), Sorted(Tail(a)))

RECURSIVE Sum(_)
Sum(a) == IF a = <<>> THEN 0 ELSE Head(a) + Sum(Tail(a))

\* 2 * numpy.median(a), a not empty
Median2(a) ==
    LET s == Sorted(a)
        n == Len(s)
    IN  IF n % 2 = 1 THEN 2 * s[(n + 1) \div 2] ELSE s[n \div 2] + s[n \div 2 + 1]

\* 4 * numpy.percentile(a, q) for q a multiple of 25, a not empty: linear
\* interpolation between the two nearest ranks
Percentile4(a, q) ==
    LET s == Sorted(a)
        pos4 == (Len(s) - 1) * (q \div 25)
        below == pos4 \div 4
        gamma4 == pos4 % 4
    IN  IF gamma4 = 0 THEN 4 * s[below + 1]
        ELSE 4 * s[below + 1] + gamma4 * (s[below + 2] - s[below + 1])

\* absolute_deviation_from_median dividing by the MAD scaled by 1.4826 for
\* consistency with the normal distribution
absolute_deviation_from_scaled_median(x) ==
    LET med2 == Median2(x)
        ad2 == [i \in 1..Len(x) |-> Abs(2 * x[i] - med2)]
        mad4 == Median2(ad2)
    IN  [i \in 1..Len(x) |-> [num |-> 2 * ad2[i] * 10000, den |-> mad4 * 14826]]

\* percentile_none without the removal of NaN: NaN counts as a value and the
\* percentile of a list with NaN is NaN
percentile_none_with_nan(dataset, percentage) ==
    LET ds == remove_zero(strip_none_bool_string(dataset))
    IN  IF Len(ds) < 2
        THEN [err |-> "ValueError: Dataset too small", cleaned |-> ds, val4 |-> 0, nan |-> FALSE]
        ELSE IF \E i \in 1..Len(ds) : ds[i].t = "nan"
        THEN [err |-> "ok", cleaned |-> ds, val4 |-> 0, nan |-> TRUE]
        ELSE [err |-> "ok", cleaned |-> ds, val4 |-> Percentile4(Values(ds), percentage),
              nan |-> FALSE]

\* stats.percentile_none: the percentile val4 / 4 of the values that remain
percentile_none(dataset, percentage) ==
    LET ds == SelectSeq(remove_zero(strip_none_bool_string(dataset)),
                        LAMBDA x : x.t # "nan")
    IN  IF Len(ds) < 2
        THEN [err |-> "ValueError: Dataset too small", cleaned |-> ds, val4 |-> 0, nan |-> FALSE]
        ELSE [err |-> "ok", cleaned |-> ds, val4 |-> Percentile4(Values(ds), percentage),
              nan |-> FALSE]

\* stats.iqr_none
iqr_none(dataset) ==
    LET q1 == percentile_none(dataset, 25)
        q3 == percentile_none(dataset, 75)
    IN  IF q1.err # "ok" THEN q1
        ELSE IF q3.err # "ok" THEN q3
        ELSE [q3 EXCEPT !.val4 = q3.val4 - q1.val4]

\* stats.absolute_deviation_from_median(x): the absolute deviation from the
\* median of each point, over the median of those deviations, as a fraction
\* num/den; den = 0 is the float inf (num > 0) or nan (num = 0)
absolute_deviation_from_median(x) ==
    LET med2 == Median2(x)
        ad2 == [i \in 1..Len(x) |-> Abs(2 * x[i] - med2)]
        mad4 == Median2(ad2)
    IN  [i \in 1..Len(x) |-> [num |-> 2 * ad2[i], den |-> mad4]]

\* mad_value > threshold
FracGt(q, t) == IF q.den = 0 THEN q.num > 0 ELSE q.num > t * q.den

\* threshold > mad_value
FracLt(q, t) == IF q.den = 0 THEN FALSE ELSE t * q.den > q.num

\* the classification loop of mad_outliers
RECURSIVE MadLoop(_, _, _, _)
MadLoop(abs_mad, dataset, threshold, i) ==
    IF i > Len(dataset) THEN <<<<>>, <<>>>>
    ELSE LET rest == MadLoop(abs_mad, dataset, threshold, i + 1)
         IN  IF FracGt(abs_mad[i], threshold) \/ FracLt(abs_mad[i], -threshold)
             THEN <<<<dataset[i]>> \o rest[1], rest[2]>>
             ELSE <<rest[1], <<dataset[i]>> \o rest[2]>>

\* the filtering step of mad_outliers, stdev_outlier and quartile_outliers
Filtered(dataset, strip_zero) ==
    IF strip_zero THEN remove_zero(strip_none_bool_string(dataset))
    ELSE strip_none_bool_string(dataset)

\* outliers.mad_outliers
mad_outliers(dataset, strip_zero, threshold) ==
    LET ds == Filtered(dataset, strip_zero)
    IN  IF Len(ds) < 2 THEN [err |-> "ok", cleaned |-> ds, groups |-> <<<<>>, ds>>]
        ELSE [err |-> "ok", cleaned |-> ds,
              groups |-> MadLoop(absolute_deviation_from_median(Values(ds)),
                                 ds, threshold, 1)]

\* bound > data_mean + rng * data_stdev, for bound = sign * value: with n the
\* length, S the sum and Q the sum of (n*x - S)^2, the mean is S/n and the
\* sample standard deviation sqrt(Q / (n*n*(n - 1)))
BeyondStdev(a, rng, bound) ==
    LET n == Len(a)
        S == Sum(a)
        Q == Sum([i \in 1..n |-> (n * a[i] - S) * (n * a[i] - S)])
        A == n * bound - S
    IN  A > 0 /\ A * A * (n - 1) > rng * rng * Q

\* the loop of stdev_outlier with the lower fence data_mean - rng * data_stdev
RECURSIVE StdevLoopSymmetric(_, _, _)
StdevLoopSymmetric(dataset, rng, i) ==
    IF i > Len(dataset) THEN <<<<>>, <<>>>>
    ELSE LET rest == StdevLoopSymmetric(dataset, rng, i + 1)
             value == dataset[i].v
             a == Values(dataset)
             n == Len(a)
             Q == Sum([k \in 1..n |-> (n * a[k] - Sum(a)) * (n * a[k] - Sum(a))])
             A == Sum(a) - n * value
         IN  IF \/ BeyondStdev(a, rng, value)
                \/ (A > 0 /\ A * A * (n - 1) > rng * rng * Q)
             THEN <<<<dataset[i]>> \o rest[1], rest[2]>>
             ELSE <<rest[1], <<dataset[i]>> \o rest[2]>>

\* the classification loop of stdev_outlier
RECURSIVE StdevLoop(_, _, _)
StdevLoop(dataset, rng, i) ==
    IF i > Len(dataset) THEN <<<<>>, <<>>>>
    ELSE LET rest == StdevLoop(dataset, rng, i + 1)
             value == dataset[i].v
         IN  IF \/ BeyondStdev(Values(dataset), rng, value)
                \/ BeyondStdev(Values(dataset), rng, -value)
             THEN <<<<dataset[i]>> \o rest[1], rest[2]>>
             ELSE <<rest[1], <<dataset[i]>> \o rest[2]>>

\* outliers.stdev_outlier
stdev_outlier(dataset, strip_zero, rng) ==
    LET ds == Filtered(dataset, strip_zero)
    IN  IF Len(ds) < 2 THEN [err |-> "ok", cleaned |-> ds, groups |-> <<<<>>, ds>>]
        ELSE [err |-> "ok", cleaned |-> ds, groups |-> StdevLoop(ds, rng, 1)]

\* outliers.two_stdev
two_stdev(dataset, strip_zero) == stdev_outlier(dataset, strip_zero, 2)

\* lower < value < upper with the lower fence measured from the lower
\* quartile: q1 - (k2/2) * iq
InsideFencesFromQ1(a, k2, value) ==
    LET q1 == Percentile4(a, 25)
        q3 == Percentile4(a, 75)
        iq == q3 - q1
    IN  (2 * q1 - k2 * iq < 8 * value) /\ (8 * value < 2 * q3 + k2 * iq)

\* lower <= value <= upper: a value on a fence counted as inside
InsideFencesClosed(a, k2, value) ==
    LET q1 == Percentile4(a, 25)
        q3 == Percentile4(a, 75)
        iq == q3 - q1
    IN  (2 * q3 - k2 * iq <= 8 * value) /\ (8 * value <= 2 * q3 + k2 * iq)

\* lower < value < upper for the fences q3 -/+ (k2/2) * iq; the percentiles
\* are held in units of 1/4 and the fences compared in units of 1/8
InsideFences(a, k2, value) ==
    LET q1 == Percentile4(a, 25)
        q3 == Percentile4(a, 75)
        iq == q3 - q1
    IN  (2 * q3 - k2 * iq < 8 * value) /\ (8 * value < 2 * q3 + k2 * iq)

\* the classification loop of quartile_outliers
RECURSIVE QuartileLoop(_, _)
QuartileLoop(dataset, i) ==
    IF i > Len(dataset) THEN <<<<>>, <<>>>>
    ELSE LET rest == QuartileLoop(dataset, i + 1)
         IN  IF ~InsideFences(Values(dataset), 6, dataset[i].v)
             THEN <<<<dataset[i]>> \o rest[1], rest[2]>>
             ELSE <<rest[1], <<dataset[i]>> \o rest[2]>>

\* quartile_outliers with the return of the whole dataset that the source
\* has commented out
quartile_outliers_dataset(dataset, strip_zero) ==
    LET ds == Filtered(dataset, strip_zero)
    IN  IF Len(ds) < 2 THEN [err |-> "ok", cleaned |-> ds, groups |-> <<<<>>, ds>>]
        ELSE [err |-> "ok", cleaned |-> ds,
              groups |-> <<QuartileLoop(ds, 1)[1], ds>>]

\* quartile_outliers without the return for fewer than 2 elements
quartile_outliers_unguarded(dataset, strip_zero) ==
    LET ds == Filtered(dataset, strip_zero)
    IN  IF Len(ds) < 1 THEN [err |-> "ok", cleaned |-> ds, groups |-> <<<<>>, ds>>]
        ELSE [err |-> "ok", cleaned |-> ds, groups |-> QuartileLoop(ds, 1)]

\* outliers.quartile_outliers
quartile_outliers(dataset, strip_zero) ==
    LET ds == Filtered(dataset, strip_zero)
    IN  IF Len(ds) < 2 THEN [err |-> "ok", cleaned |-> ds, groups |-> <<<<>>, ds>>]
        ELSE [err |-> "ok", cleaned |-> ds, groups |-> QuartileLoop(ds, 1)]

\* Python's x == y on elements: numbers and booleans by value
PyEq(x, y) ==
    IF x.t \in {"int", "bool"} /\ y.t \in {"int", "bool"} THEN x.v = y.v ELSE x = y

\* val in ['', 0.0, 0]
InZeroList(val) == PyEq(val, EmptyStr) \/ PyEq(val, IntElem(0))

\* list.remove(val): without the first element equal to val
RECURSIVE ListRemove(_, _)
ListRemove(ls, val) ==
    IF ls = <<>> THEN <<>>
    ELSE IF PyEq(Head(ls), val) THEN Tail(ls)
    ELSE <<Head(ls)>> \o ListRemove(Tail(ls), val)

\* `for val in dataset: if val in ['', 0.0, 0]: dataset.remove(val)`, the
\* list iterator standing at index i of the list that is being changed
RECURSIVE RemoveLoop(_, _)
RemoveLoop(dataset, i) ==
    IF i > Len(dataset) THEN dataset
    ELSE IF InZeroList(dataset[i]) THEN RemoveLoop(ListRemove(dataset, dataset[i]), i + 1)
    ELSE RemoveLoop(dataset, i + 1)

\* the cleaning of spss_outliers: `for i in range(2)`
SpssClean(dataset) ==
    RemoveLoop(strip_nonetype(RemoveLoop(strip_nonetype(dataset), 1)), 1)

\* the classification loop of spss_outliers
RECURSIVE SpssLoop(_, _)
SpssLoop(dataset, i) ==
    IF i > Len(dataset) THEN <<<<>>, <<>>, <<>>>>
    ELSE LET rest == SpssLoop(dataset, i + 1)
         IN  IF ~InsideFences(Values(dataset), 6, dataset[i].v)
             THEN <<<<dataset[i]>> \o rest[1], rest[2], rest[3]>>
             ELSE IF ~InsideFences(Values(dataset), 3, dataset[i].v)
             THEN <<rest[1], <<dataset[i]>> \o rest[2], rest[3]>>
             ELSE <<rest[1], rest[2], <<dataset[i]>> \o rest[3]>>

\* outliers.spss_outliers: the outcomes of a call.  numpy.percentile fails
\* on an array of strings (a string among the elements makes it one); on
\* an array of booleans it fails or computes with 0 and 1, by the version
\* of numpy.
spss_outliers(dataset, strip_zero) ==
    IF Len(dataset) < 2
    THEN {[err |-> "ValueError: Dataset too small", cleaned |-> dataset, groups |-> <<>>]}
    ELSE LET ds == SpssClean(dataset)
             computed == [err |-> "ok", cleaned |-> ds, groups |-> SpssLoop(ds, 1)]
             failed == [err |-> "TypeError", cleaned |-> ds, groups |-> <<>>]
         IN  IF Len(ds) = 0
             THEN {[err |-> "ok", cleaned |-> ds, groups |-> <<<<>>, <<>>, <<>>>>]}
             ELSE IF \E i \in 1..Len(ds) : ds[i].t = "str" THEN {failed}
             ELSE IF \A i \in 1..Len(ds) : ds[i].t = "bool" THEN {failed, computed}
             ELSE {computed}

----------------------------------------------------------------------------
(* The callers of the detectors.  data is the caller's dataset, out the      *)
(* detector call just made and its outcome (NoOut once the caller has        *)
(* taken it).                                                                *)

Elements == {NoneElem, EmptyStr, FalseElem, IntElem(0), IntElem(1), IntElem(5), IntElem(-3)}

\* the datasets of the tests
TestData ==
    {[i \in 1..5 |-> IntElem(d[i])] :
        d \in {<<1, 2, 3, 4, 5>>, <<1, 2, 3, 4, 10>>, <<1, 2, 3, 4, 50>>,
               <<1, 2, 3, 4, 100>>, <<1, 2, 3, 4, 1000>>, <<1, 2, 3, 50, 1000>>}}

Datasets == UNION {[1..n -> Elements] : n \in 0..MaxData} \cup TestData

\* the values given for threshold
Thresholds == {2, 3}

\* the values given for percentage
Percentages == {0, 25, 50, 75, 100}

\* the values given for rng
Ranges == {1, 2}

InitOutliers ==
    /\ r = NewObject
    /\ phase = "new"
    /\ ret = NoCall
    /\ it = NoIter
    /\ data \in Datasets
    /\ out = NoOut

\* the call's record: its name, its arguments after the dataset, its outcome
\* the caller's list with the cleaning of spss_outliers done on it
ArgumentCleaned(dataset) == IF Len(dataset) < 2 THEN dataset ELSE SpssClean(dataset)

\* the caller's list after a call of a detector: each detector first binds
\* its name dataset to a new list (a list comprehension), and only that list
\* is filtered or has elements removed
ArgumentAfter(dataset) == dataset

Called(op, arg, res) ==
    [op |-> op, arg |-> arg, err |-> res.err, cleaned |-> res.cleaned, groups |-> res.groups]

MadCall(strip_zero, threshold) ==
    /\ out = NoOut
    /\ out' = Called("mad_outliers", <<strip_zero, threshold>>,
                     mad_outliers(data, strip_zero, threshold))
    /\ data' = ArgumentAfter(data)
    /\ UNCHANGED <<r, phase, ret, it>>

TwoStdevCall(strip_zero) ==
    /\ out = NoOut
    /\ out' = Called("two_stdev", <<strip_zero>>, two_stdev(data, strip_zero))
    /\ data' = ArgumentAfter(data)
    /\ UNCHANGED <<r, phase, ret, it>>

StdevCall(strip_zero, rng) ==
    /\ out = NoOut
    /\ out' = Called("stdev_outlier", <<strip_zero, rng>>,
                     stdev_outlier(data, strip_zero, rng))
    /\ data' = ArgumentAfter(data)
    /\ UNCHANGED <<r, phase, ret, it>>

QuartileCall(strip_zero) ==
    /\ out = NoOut
    /\ out' = Called("quartile_outliers", <<strip_zero>>,
                     quartile_outliers(data, strip_zero))
    /\ data' = ArgumentAfter(data)
    /\ UNCHANGED <<r, phase, ret, it>>

SpssCall(strip_zero) ==
    /\ out = NoOut
    /\ \E res \in spss_outliers(data, strip_zero) :
          out' = Called("spss_outliers", <<strip_zero>>, res)
    /\ data' = ArgumentAfter(data)
    /\ UNCHANGED <<r, phase, ret, it>>

\* a call of one of the filters of utils; the list returned is in cleaned
StripCall ==
    /\ out = NoOut
    /\ out' = Called("strip_none_bool_string", <<>>,
                     [err |-> "ok", cleaned |-> strip_none_bool_string(data), groups |-> <<>>])
    /\ UNCHANGED <<r, phase, ret, it, data>>

RemoveZeroCall ==
    /\ out = NoOut
    /\ out' = Called("remove_zero", <<>>,
                     [err |-> "ok", cleaned |-> remove_zero(data), groups |-> <<>>])
    /\ UNCHANGED <<r, phase, ret, it, data>>

\* absolute_deviation (stats.py) works on floating-point arrays: an element
\* is finite ("int"), an infinity ("inf", v its sign) or NaN
InfElem(s) == [t |-> "inf", v |-> s]

\* IEEE-754 addition, negation and absolute value
FAdd(a, b) ==
    IF a.t = "nan" \/ b.t = "nan" THEN NaNElem
    ELSE IF a.t = "inf" /\ b.t = "inf" THEN IF a.v = b.v THEN a ELSE NaNElem
    ELSE IF a.t = "inf" THEN a
    ELSE IF b.t = "inf" THEN b
    ELSE IntElem(a.v + b.v)

FNeg(a) == IF a.t = "nan" THEN a ELSE [a EXCEPT !.v = -a.v]

FAbs(a) == IF a.t = "nan" THEN a ELSE [a EXCEPT !.v = Abs(a.v)]

\* a <= b: false when either side is NaN
FLe(a, b) ==
    /\ a.t # "nan" /\ b.t # "nan"
    /\ \/ a.t = "inf" /\ a.v < 0
       \/ b.t = "inf" /\ b.v > 0
       \/ a.t = "int" /\ b.t = "int" /\ a.v <= b.v

FLt(a, b) == FLe(a, b) /\ ~FLe(b, a)

RECURSIVE FSum(_)
FSum(a) == IF a = <<>> THEN IntElem(0) ELSE FAdd(Head(a), FSum(Tail(a)))

RECURSIVE FInsert(_, _)
FInsert(x, a) ==
    IF a = <<>> THEN <<x>>
    ELSE IF FLe(x, Head(a)) THEN <<x>> \o a
    ELSE <<Head(a)>> \o FInsert(x, Tail(a))

RECURSIVE FSorted(_)
FSorted(a) == IF a = <<>> THEN <<>> ELSE FInsert(Head(a), FSorted(Tail(a)))

\* twice numpy.median(a): NaN for an empty array and for one that holds a
\* NaN, else the sum of the two middle values of the sorted array
FMedian2(a) ==
    IF a = <<>> \/ \E i \in 1..Len(a) : a[i].t = "nan" THEN NaNElem
    ELSE LET s == FSorted(a)
             n == Len(a)
         IN  FAdd(s[(n + 1) \div 2], s[n \div 2 + 1])

\* _contains_nan: the test is numpy.isnan(numpy.sum(a))
contains_nan(a) == FSum(a).t = "nan"

NaNPolicies == {"propagate", "raise", "omit"}

\* numpy.ma.masked_invalid(x).compressed(): NaN and the infinities are masked
masked_invalid_compressed(x) == SelectSeq(x, LAMBDA e : e.t = "int")

\* twice numpy.abs(arr - med), element by element
deviations2(arr) ==
    [i \in 1..Len(arr) |-> FAbs(FAdd(FAdd(arr[i], arr[i]), FNeg(FMedian2(arr))))]

\* absolute_deviation(x, nan_policy=...), axis 0 and center numpy.median:
\* nan is set when the scalar numpy.nan is returned, else ad2 is twice the
\* returned array
absolute_deviation(x, nan_policy) ==
    IF x = <<>> THEN [err |-> "ok", nan |-> TRUE, ad2 |-> <<>>]
    ELSE IF nan_policy \notin NaNPolicies
    THEN [err |-> "ValueError: nan_policy must be one of", nan |-> FALSE, ad2 |-> <<>>]
    ELSE IF contains_nan(x) /\ nan_policy = "raise"
    THEN [err |-> "ValueError: The input contains nan values", nan |-> FALSE, ad2 |-> <<>>]
    ELSE IF contains_nan(x) /\ nan_policy = "propagate"
    THEN [err |-> "ok", nan |-> TRUE, ad2 |-> <<>>]
    ELSE LET arr == IF contains_nan(x) /\ nan_policy = "omit"
                    THEN masked_invalid_compressed(x) ELSE x
         IN  [err |-> "ok", nan |-> FALSE, ad2 |-> deviations2(arr)]

\* the arrays given to absolute_deviation: the numbers of data followed by
\* a tail of NaN and infinities
SpecialTails ==
    {<<>>, <<NaNElem>>, <<InfElem(1)>>, <<InfElem(-1)>>,
     <<InfElem(1), InfElem(-1)>>, <<NaNElem, InfElem(1)>>}

FloatArray(tail) == SelectSeq(data, LAMBDA e : e.t = "int") \o tail

AbsoluteDeviationCall(tail, nan_policy) ==
    /\ out = NoOut
    /\ LET x == FloatArray(tail)
           res == absolute_deviation(x, nan_policy)
       IN  out' = [op |-> "absolute_deviation", arg |-> <<x, nan_policy>>, err |-> res.err,
                   nan |-> res.nan, ad2 |-> res.ad2]
    /\ UNCHANGED <<r, phase, ret, it, data>>

\* the dataset given to the statistics of stats.py: data, with a NaN put
\* before its last element when nans is set
WithNaN(nans) ==
    IF nans /\ data # <<>>
    THEN SubSeq(data, 1, Len(data) - 1) \o <<NaNElem, data[Len(data)]>>
    ELSE IF nans THEN <<NaNElem>>
    ELSE data

PercentileNoneCall(nans, percentage) ==
    /\ out = NoOut
    /\ LET res == percentile_none(WithNaN(nans), percentage)
       IN  out' = [op |-> "percentile_none", arg |-> <<nans, percentage>>, err |-> res.err,
                   cleaned |-> res.cleaned, val4 |-> res.val4, nan |-> res.nan]
    /\ UNCHANGED <<r, phase, ret, it, data>>

IqrNoneCall(nans) ==
    /\ out = NoOut
    /\ LET res == iqr_none(WithNaN(nans))
       IN  out' = [op |-> "iqr_none", arg |-> <<nans>>, err |-> res.err,
                   cleaned |-> res.cleaned, val4 |-> res.val4, nan |-> res.nan]
    /\ UNCHANGED <<r, phase, ret, it, data>>

\* the caller takes the result
TakeResult ==
    /\ out # NoOut
    /\ out' = NoOut
    /\ UNCHANGED <<r, phase, ret, it, data>>

NextOutliers ==
    \/ \E strip_zero \in BOOLEAN, threshold \in Thresholds : MadCall(strip_zero, threshold)
    \/ \E strip_zero \in BOOLEAN : TwoStdevCall(strip_zero)
    \/ \E strip_zero \in BOOLEAN, rng \in Ranges : StdevCall(strip_zero, rng)
    \/ \E strip_zero \in BOOLEAN : QuartileCall(strip_zero)
    \/ \E strip_zero \in BOOLEAN : SpssCall(strip_zero)
    \/ StripCall
    \/ RemoveZeroCall
    \/ TakeResult

OutlierSpec == InitOutliers /\ [][NextOutliers]_vars

\* the callers of the statistics of stats.py
NextStats ==
    \/ \E nans \in BOOLEAN, percentage \in Percentages : PercentileNoneCall(nans, percentage)
    \/ \E nans \in BOOLEAN : IqrNoneCall(nans)
    \/ \E tail \in SpecialTails, nan_policy \in NaNPolicies \cup {"ignore"} :
          AbsoluteDeviationCall(tail, nan_policy)
    \/ TakeResult

StatsSpec == InitOutliers /\ [][NextStats]_vars

----------------------------------------------------------------------------
(* Effect sizes (stats.py) and number theory (utils.py) *)

\* the argument of interpret_d is a float; a finite one is counted in
\* hundredths, so that the thresholds 0.2, 0.5 and 0.8 are 20, 50 and 80
MaxD == 100

RecursionLimit == 8

\* the branch of interpret_d's if/elif chain that is taken
interpret_d_branch_open(d) ==
    IF FLe(IntElem(0), d) /\ FLt(d, IntElem(20)) THEN "No"
    ELSE IF FLt(IntElem(20), d) /\ FLt(d, IntElem(50)) THEN "Small"
    ELSE IF FLt(IntElem(50), d) /\ FLt(d, IntElem(80)) THEN "Intermediate"
    ELSE IF FLt(IntElem(80), d) THEN "Large"
    ELSE "else"

interpret_d_branch(d) ==
    IF FLe(IntElem(0), d) /\ FLt(d, IntElem(20)) THEN "No"
    ELSE IF FLe(IntElem(20), d) /\ FLt(d, IntElem(50)) THEN "Small"
    ELSE IF FLe(IntElem(50), d) /\ FLt(d, IntElem(80)) THEN "Intermediate"
    ELSE IF FLe(IntElem(80), d) THEN "Large"
    ELSE "else"

\* interpret_d called at the given depth of the call stack; a label is the
\* sequence of its words, calls counts the recursive calls made, and the
\* interpreter raises RecursionError when the stack is full
RECURSIVE interpret_d_at(_, _)
interpret_d_at(d_or_g, depth) ==
    IF depth > RecursionLimit
    THEN [err |-> "RecursionError", label |-> <<>>, calls |-> depth]
    ELSE LET branch == interpret_d_branch(d_or_g)
         IN  IF branch # "else"
             THEN [err |-> "ok", label |-> <<branch, "Effect">>, calls |-> depth]
             ELSE LET inner == interpret_d_at(FAbs(d_or_g), depth + 1)
                  IN  IF inner.err # "ok" THEN inner
                      ELSE [inner EXCEPT !.label = <<Head(inner.label), "Adverse", "Effect">>]

interpret_d(d_or_g) == interpret_d_at(d_or_g, 0)

\* math.gcd
RECURSIVE gcd(_, _)
gcd(a, b) == IF b = 0 THEN Abs(a) ELSE gcd(b, a % b)

RECURSIVE gcd2_loop(_, _, _)
gcd2_loop(c, numbers, i) ==
    IF i > Len(numbers) THEN c ELSE gcd2_loop(gcd(c, numbers[i]), numbers, i + 1)

gcd2(numbers) == gcd2_loop(numbers[1], numbers, 2)

RECURSIVE lcm_product(_, _, _)
lcm_product(product, numbers, i) ==
    IF i > Len(numbers) THEN product
    ELSE lcm_product(product * numbers[i], numbers, i + 1)

\* lcm: product / gcd is a float (float set), here always a whole number
lcm(numbers) ==
    LET product == lcm_product(numbers[1], numbers, 2)
        g == gcd2(numbers)
    IN  IF product % g = 0
        THEN [float |-> TRUE, v |-> product \div g]
        ELSE [float |-> FALSE, v |-> product]

\* the while loop of mod_inverse, steps counting its iterations; Python's %
\* with a positive modulus is the % of TLA+, never negative
RECURSIVE mod_inverse_loop(_, _, _, _)
mod_inverse_loop(u, v, m, steps) ==
    IF v[3] = 0 THEN [u1 |-> u[1], steps |-> steps]
    ELSE LET q == u[3] \div v[3]
         IN  mod_inverse_loop(v, <<u[1] - q * v[1], u[2] - q * v[2], u[3] - q * v[3]>>,
                              m, steps + 1)

mod_inverse_unreduced(a, m) ==
    IF gcd(a, m) # 1 THEN [none |-> TRUE, v |-> 0, steps |-> 0]
    ELSE LET res == mod_inverse_loop(<<1, 0, a>>, <<0, 1, m>>, m, 0)
         IN  [none |-> FALSE, v |-> res.u1, steps |-> res.steps]

mod_inverse(a, m) ==
    IF gcd(a, m) # 1 THEN [none |-> TRUE, v |-> 0, steps |-> 0]
    ELSE LET res == mod_inverse_loop(<<1, 0, a>>, <<0, 1, m>>, m, 0)
         IN  [none |-> FALSE, v |-> res.u1 % m, steps |-> res.steps]

\* the callers
MaxNumber == 8

MaxNumbers == 3

DValues == {IntElem(n) : n \in (-MaxD)..MaxD} \cup {InfElem(1), InfElem(-1), NaNElem}

NumberLists == UNION {[1..n -> 1..MaxNumber] : n \in 1..MaxNumbers}

InterpretDCall(d_or_g) ==
    /\ out = NoOut
    /\ LET res == interpret_d(d_or_g)
       IN  out' = [op |-> "interpret_d", arg |-> <<d_or_g>>, err |-> res.err,
                   label |-> res.label, calls |-> res.calls]
    /\ UNCHANGED <<r, phase, ret, it, data>>

LcmCall(numbers) ==
    /\ out = NoOut
    /\ out' = [op |-> "lcm", arg |-> <<numbers>>, err |-> "ok", val |-> lcm(numbers)]
    /\ UNCHANGED <<r, phase, ret, it, data>>

ModInverseCall(a, m) ==
    /\ out = NoOut
    /\ out' = [op |-> "mod_inverse", arg |-> <<a, m>>, err |-> "ok", val |-> mod_inverse(a, m)]
    /\ UNCHANGED <<r, phase, ret, it, data>>

NextNumbers ==
    \/ \E d_or_g \in DValues : InterpretDCall(d_or_g)
    \/ \E numbers \in NumberLists : LcmCall(numbers)
    \/ \E a \in 1..(2 * MaxNumber), m \in 1..(2 * MaxNumber) : ModInverseCall(a, m)
    \/ TakeResult

NumberSpec == Init /\ [][NextNumbers]_vars

----------------------------------------------------------------------------

(* Outlier-detector properties *)

\* d is an interleaving of the groups: every element occurrence of d is in
\* exactly one group, and each group is in the order of d
RECURSIVE Interleaves(_, _)
Interleaves(d, groups) ==
    IF d = <<>> THEN \A g \in DOMAIN groups : groups[g] = <<>>
    ELSE \E g \in DOMAIN groups :
            /\ groups[g] # <<>>
            /\ Head(groups[g]) = Head(d)
            /\ Interleaves(Tail(d), [groups EXCEPT ![g] = Tail(@)])

\* s is d without some of its elements
RECURSIVE IsSubseq(_, _)
IsSubseq(s, d) ==
    IF s = <<>> THEN TRUE
    ELSE IF d = <<>> THEN FALSE
    ELSE IF Head(s) = Head(d) THEN IsSubseq(Tail(s), Tail(d))
    ELSE IsSubseq(s, Tail(d))

\* the detectors that share the null, boolean and string strip
StripDetectors == {"mad_outliers", "two_stdev", "stdev_outlier", "quartile_outliers"}

Detectors == StripDetectors \cup {"spss_outliers"}

\* the dataset after the filtering step of the detector called: the null,
\* boolean and string strip and the zero strip that the call asked for, or
\* for spss_outliers the list its cleaning has left
AfterFiltering ==
    IF out.op = "spss_outliers" THEN out.cleaned
    ELSE SelectSeq(data, LAMBDA x : x.t = "int" /\ (out.arg[1] => x.v # 0))

\* C10: the groups a detector returns (outliers and inliers, with extremes
\* before them for spss_outliers) partition the dataset left by its
\* filtering step: the sizes of the groups sum to its length, every element
\* occurrence is in exactly one group, and each group keeps the input order
\* (the filtered dataset being itself in the input order).
C10_PartitionComplete ==
    (out.op \in Detectors /\ out.err = "ok") =>
        /\ Len(out.groups) = (IF out.op = "spss_outliers" THEN 3 ELSE 2)
        /\ IsSubseq(AfterFiltering, data)
        /\ Sum([g \in DOMAIN out.groups |-> Len(out.groups[g])]) = Len(AfterFiltering)
        /\ Interleaves(AfterFiltering, out.groups)

\* spss_outliers has cleaned elements away and has returned both outliers
\* and inliers
C10_Witness ==
    /\ out.op = "spss_outliers"
    /\ out.err = "ok"
    /\ Len(out.cleaned) < Len(data)
    /\ out.groups[2] # <<>> /\ out.groups[3] # <<>>

\* C11: when fewer than 2 elements remain after the filtering step,
\* mad_outliers, stdev_outlier (also through two_stdev) and quartile_outliers
\* return an empty outlier list and the filtered dataset as inliers, and
\* raise nothing.
C11_SmallDataset ==
    (out.op \in StripDetectors /\ Len(AfterFiltering) < 2) =>
        /\ out.err = "ok"
        /\ out.groups = <<<<>>, AfterFiltering>>

\* quartile_outliers was given [.., None, ..]-like data of which one number
\* remains
C11_Witness ==
    /\ out.op = "quartile_outliers"
    /\ Len(data) >= 2
    /\ Len(AfterFiltering) = 1
    /\ out.groups = <<<<>>, AfterFiltering>>

\* C12: spss_outliers fails with "Dataset too small" exactly when the input
\* has fewer than 2 elements; on 2 or more elements it does not fail, and
\* when the cleaning leaves nothing it returns three empty groups.
C12_SpssTooSmall ==
    out.op = "spss_outliers" =>
        /\ (out.err = "ValueError: Dataset too small") <=> (Len(data) < 2)
        /\ Len(data) >= 2 => out.err = "ok"
        /\ (out.err = "ok" /\ out.cleaned = <<>>) => out.groups = <<<<>>, <<>>, <<>>>>

\* x is None or equal to '', 0.0 or 0
NullOrZero(x) == x.t = "none" \/ InZeroList(x)

\* C13: after the cleaning of spss_outliers no element that is None or equal
\* to '', 0.0 or 0 remains: the quartiles are computed over none, and none
\* is in any of the three groups.
C13_SpssCleaning ==
    (out.op = "spss_outliers" /\ Len(data) >= 2) =>
        /\ \A i \in 1..Len(out.cleaned) : ~NullOrZero(out.cleaned[i])
        /\ \A g \in DOMAIN out.groups :
              \A i \in 1..Len(out.groups[g]) : ~NullOrZero(out.groups[g][i])

\* 8 * (Q3 + m * IQR) for m = m2 / 2, Q1 and Q3 being the linear-interpolated
\* 25th and 75th percentiles of the values of ds
Fence8(ds, m2) ==
    LET Q1 == Percentile4(Values(ds), 25)
        Q3 == Percentile4(Values(ds), 75)
    IN  2 * Q3 + m2 * (Q3 - Q1)

\* v is outside the open interval (Q3 - m * IQR, Q3 + m * IQR), m = m2 / 2
OutsideQ3Interval(ds, m2, x) ==
    ~(Fence8(ds, -m2) < 8 * x.v /\ 8 * x.v < Fence8(ds, m2))

QuartileByQ3Interval ==
    LET ds == AfterFiltering
    IN  /\ out.err = "ok"
        /\ out.groups[1] = SelectSeq(ds, LAMBDA x : OutsideQ3Interval(ds, 6, x))
        /\ out.groups[2] = SelectSeq(ds, LAMBDA x : ~OutsideQ3Interval(ds, 6, x))

C16_QuartileFromBothQuartiles ==
    (out.op = "quartile_outliers" /\ Len(AfterFiltering) >= 2) =>
        LET ds == AfterFiltering
            Q1 == Percentile4(Values(ds), 25)
            Q3 == Percentile4(Values(ds), 75)
            far(x) == \/ 4 * x.v > Q3 + 3 * (Q3 - Q1)
                      \/ 4 * x.v < Q1 - 3 * (Q3 - Q1)
        IN  /\ out.groups[1] = SelectSeq(ds, far)
            /\ out.groups[2] = SelectSeq(ds, LAMBDA x : ~far(x))

\* value is an outlier of ds by the rule of stdev_outlier: with n the number
\* of elements, mean = S / n and stdev = sqrt(SS / (n - 1)) for SS the sum of
\* the squares of x - mean, value > mean + rng * stdev or
\* value < -(mean + rng * stdev).  Both are compared after multiplying by n
\* and squaring.
StdevRule(ds, rng, value) ==
    LET n == Len(ds)
        S == Sum(Values(ds))
        nnSS == Sum([i \in 1..n |-> (n * ds[i].v - S) * (n * ds[i].v - S)])
        above == n * value - S
        below == -(n * value) - S
    IN  \/ above > 0 /\ above * above * (n - 1) > rng * rng * nnSS
        \/ below > 0 /\ below * below * (n - 1) > rng * rng * nnSS

IntData(d) == [i \in 1..Len(d) |-> IntElem(d[i])]

\* x is an outlier of ds by the rule of mad_outliers: its ratio
\* |x - median| / MAD, MAD being the median of the |y - median| of the
\* elements y, is > threshold or < -threshold; a ratio with MAD = 0 is
\* infinite for a positive numerator and not a number for 0 / 0
MadRule(ds, threshold, x) ==
    LET dev2(y) == Abs(2 * y.v - Median2(Values(ds)))
        MAD4 == Median2([i \in 1..Len(ds) |-> dev2(ds[i])])
    IN  IF MAD4 = 0 THEN dev2(x) > 0
        ELSE 2 * dev2(x) > threshold * MAD4 \/ 2 * dev2(x) < (-threshold) * MAD4

\* C18: mad_outliers reports an element of the filtered dataset as an
\* outlier iff |x - median| / MAD (unscaled) is > threshold or
\* < -threshold, else as an inlier; [1,2,3,4,5] has no outliers and
\* [1,2,3,4,1000] the outlier 1000, at threshold 3.
C18_MadClassification ==
    out.op = "mad_outliers" =>
        LET ds == AfterFiltering
            outlier(x) == ds # <<>> /\ MadRule(ds, out.arg[2], x)
        IN  /\ out.err = "ok"
            /\ out.groups[1] = SelectSeq(ds, outlier)
            /\ out.groups[2] = SelectSeq(ds, LAMBDA x : ~outlier(x))
            /\ (data = IntData(<<1, 2, 3, 4, 5>>) /\ out.arg[2] = 3) =>
                  out.groups = <<<<>>, data>>
            /\ (data = IntData(<<1, 2, 3, 4, 1000>>) /\ out.arg[2] = 3) =>
                  out.groups = <<IntData(<<1000>>), IntData(<<1, 2, 3, 4>>)>>

\* mad_outliers(threshold=3) has been called on [1, 2, 3, 4, 1000]
C18_Witness ==
    /\ out.op = "mad_outliers" /\ out.arg[2] = 3
    /\ data = IntData(<<1, 2, 3, 4, 1000>>)
    /\ out.groups[1] # <<>>

\* C19: strip_none_bool_string returns exactly the elements of its input
\* that are not None, not booleans and not strings, and remove_zero exactly
\* those that are not equal to zero, False and None dropped too; both keep
\* the order, change nothing when applied again, and raise nothing.
C19_NumericFilters ==
    /\ out.op = "strip_none_bool_string" =>
          /\ out.err = "ok"
          /\ out.cleaned = SelectSeq(data, LAMBDA x : x.t = "int")
          /\ strip_none_bool_string(out.cleaned) = out.cleaned
    /\ out.op = "remove_zero" =>
          /\ out.err = "ok"
          /\ out.cleaned = SelectSeq(data, LAMBDA x : ~(x.t = "none" \/ PyEq(x, IntElem(0))))
          /\ remove_zero(out.cleaned) = out.cleaned

\* the values of the dataset given to percentile_none or iqr_none that are
\* left when None, booleans, strings, zeros and NaN are taken away
Remaining == SelectSeq(WithNaN(out.arg[1]), LAMBDA x : x.t = "int" /\ x.v # 0)

\* C20: percentile_none, and iqr_none through it, fails with "Dataset too
\* small" exactly when fewer than 2 values remain after None, booleans,
\* strings, zeros and NaN are taken away; otherwise it returns a value and
\* raises nothing, percentile 0 being the least and percentile 100 the
\* greatest of the remaining values.
C20_PercentileNone ==
    (out.op \in {"percentile_none", "iqr_none"}) =>
        /\ (out.err = "ValueError: Dataset too small") <=> (Len(Remaining) < 2)
        /\ Len(Remaining) >= 2 => (out.err = "ok" /\ ~out.nan)
        /\ (out.op = "percentile_none" /\ Len(Remaining) >= 2) =>
              LET vs == {Remaining[i].v : i \in 1..Len(Remaining)}
              IN  /\ out.arg[2] = 0 => \A v \in vs : out.val4 <= 4 * v
                  /\ out.arg[2] = 0 => \E v \in vs : out.val4 = 4 * v
                  /\ out.arg[2] = 100 => \A v \in vs : out.val4 >= 4 * v
                  /\ out.arg[2] = 100 => \E v \in vs : out.val4 = 4 * v

\* percentile_none was given a list with None, a zero or a string and a NaN,
\* of which at least 2 different values remain, and has returned the
\* greatest
C20_Witness ==
    /\ out.op = "percentile_none" /\ out.err = "ok"
    /\ out.arg = <<TRUE, 100>>
    /\ Len(Remaining) + 1 < Len(data)
    /\ \E i \in 1..Len(Remaining) : 4 * Remaining[i].v < out.val4

----------------------------------------------------------------------------
(* Statistics properties *)

HasNaN(x) == \E i \in 1..Len(x) : x[i].t = "nan"

DropNaN(x) == SelectSeq(x, LAMBDA e : e.t # "nan")

\* C21: the NaN policy of absolute_deviation: an empty input yields NaN;
\* under "propagate" a NaN in the data makes the whole result NaN; under
\* "raise" a NaN makes the call fail and give no result; under "omit" the
\* NaNs are dropped before the centre and the deviations are computed; an
\* input without NaN gives |x - center(x)| under all three policies.
C21_NanPolicy ==
    (out.op = "absolute_deviation" /\ out.arg[2] \in NaNPolicies) =>
        LET x == out.arg[1]
            nan_policy == out.arg[2]
        IN  /\ x = <<>> => (out.err = "ok" /\ out.nan)
            /\ (x # <<>> /\ HasNaN(x) /\ nan_policy = "propagate") => (out.err = "ok" /\ out.nan)
            /\ (x # <<>> /\ HasNaN(x) /\ nan_policy = "raise") =>
                   out.err = "ValueError: The input contains nan values"
            /\ (x # <<>> /\ HasNaN(x) /\ nan_policy = "omit") =>
                   (out.err = "ok" /\ ~out.nan /\ out.ad2 = deviations2(DropNaN(x)))
            /\ (x # <<>> /\ ~HasNaN(x)) =>
                   (out.err = "ok" /\ ~out.nan /\ out.ad2 = deviations2(x))

----------------------------------------------------------------------------
(* Effect-size and number-theory properties *)

\* C22: interpret_d gives every non-negative value the label of its
\* interval, [0, 0.2) "No Effect", [0.2, 0.5) "Small Effect", [0.5, 0.8)
\* "Intermediate Effect", 0.8 and above "Large Effect", and a negative value
\* the label of its absolute value with "Adverse" put before "Effect".
C22_InterpretDLabels ==
    (out.op = "interpret_d" /\ out.arg[1].t # "nan") =>
        LET d == out.arg[1]
            size == IF d.t = "inf" \/ Abs(d.v) >= 80 THEN "Large"
                    ELSE IF Abs(d.v) >= 50 THEN "Intermediate"
                    ELSE IF Abs(d.v) >= 20 THEN "Small"
                    ELSE "No"
        IN  /\ out.err = "ok"
            /\ out.label = IF d.v < 0 THEN <<size, "Adverse", "Effect">>
                           ELSE <<size, "Effect">>

C22_Witness ==
    /\ out.op = "interpret_d"
    /\ out.arg[1] = IntElem(-20)
    /\ out.label = <<"Small", "Adverse", "Effect">>

\* C23: lcm returns the least common multiple of a non-empty list of
\* positive integers: the smallest positive integer that every element
\* divides.
C23_LcmLeast ==
    out.op = "lcm" =>
        LET numbers == out.arg[1]
            v == out.val.v
            Common(k) == \A i \in 1..Len(numbers) : k % numbers[i] = 0
        IN  /\ v > 0
            /\ Common(v)
            /\ \A k \in 1..(v - 1) : ~Common(k)

Coprime(a, m) == \A k \in 2..a : ~(a % k = 0 /\ m % k = 0)

C30_InterpretDTerminates ==
    out.op = "interpret_d" => (out.err = "ok" /\ out.calls <= 1)

----------------------------------------------------------------------------
(* Properties of several iterators *)

\* C25: iterators over one FRange are independent: whatever the
\* interleaving of their steps, each has yielded the first values of the
\* whole sequence of the FRange, beginning at start, and one that has ended
\* has yielded the whole sequence.
C25_IndependentIterators ==
    \A i \in 1..Len(it) :
        LET whole == IterList(r)
            n == Len(it[i].yielded)
        IN  /\ it[i].count = n
            /\ n <= Len(whole)
            /\ it[i].yielded = SubSeq(whole, 1, n)
            /\ it[i].state = "done" => n = Len(whole)

\* C25 witness: a second iterator is part-way while the first has ended
\* after two or more values
C25_Witness ==
    /\ Len(it) = 2
    /\ it[1].state = "done" /\ Len(it[1].yielded) >= 2
    /\ it[2].state = "active" /\ Len(it[2].yielded) = 1

IsZero(e) == e.t = "int" /\ e.v = 0

Zeros(t) == Len(SelectSeq(t, IsZero))

RECURSIVE Concat(_)
Concat(groups) == IF groups = <<>> THEN <<>> ELSE Head(groups) \o Concat(Tail(groups))

\* C27: for each of the four detectors, with strip_zero set no zero is in
\* any output group, and with strip_zero not set every zero of the input is
\* in one of the output groups.
C27_ZeroStripSwitch ==
    (out.op \in Detectors /\ out.err = "ok") =>
        IF out.arg[1] THEN Zeros(Concat(out.groups)) = 0
        ELSE Zeros(Concat(out.groups)) = Zeros(data)

\* C28: Item never returns a non-member: when r[i] returns a value, for an
\* integer i of either sign, that value is one of those Iterate produces.
C28_ItemIsMember ==
    (ret.op = "getitem" /\ ret.err = "ok") => ret.val \in SeqRange(IterList(r))

\* C29: a dataset of two or more copies of one non-zero number has no
\* outliers: each detector returns all its elements as inliers and empty
\* outlier (and extreme) groups.
C29_ConstantData ==
    (/\ out.op \in Detectors
     /\ Len(data) >= 2
     /\ \A i \in 1..Len(data) : data[i] = data[1] /\ data[i].t = "int" /\ data[i].v # 0) =>
        /\ out.err = "ok"
        /\ out.groups[Len(out.groups)] = data
        /\ \A g \in 1..(Len(out.groups) - 1) : out.groups[g] = <<>>

====
